---- MODULE Spec2Model ----
(***************************************************************************)
(* Archer's InstrumentParallel function pass                               *)
(* (lib/Transforms/Instrumentation/InstrumentParallel.cpp).                *)
(*                                                                         *)
(* The model has two halves.  The first is the pass itself: the module's   *)
(* function list and globals, and one action per call of runOnFunction.    *)
(* The second is the execution, by one thread, of the code the pass        *)
(* produced: a call stack, the thread's copy of __swordomp_status__ and    *)
(* the trace of observable events.                                         *)
(*                                                                         *)
(* Names (of functions, globals, blocks and values) are sequences of       *)
(* tokens, so that "ends with", "starts with" and "name + suffix" are the  *)
(* sequence operations.                                                    *)
(***************************************************************************)
EXTENDS Integers, Sequences, FiniteSets, TLC

VARIABLES functions, globals, cur, status, msg, run, input,
          stack, flag, trace, last, calls

passVars == <<functions, globals, cur, status, msg, run, input>>
rtVars   == <<stack, flag, trace, last, calls>>
vars     == <<functions, globals, cur, status, msg, run, input,
              stack, flag, trace, last, calls>>

-----------------------------------------------------------------------------
(* Bounds *)

\* Number of functions in the module handed to the pass.
MaxFuncs == 2
\* Argument values of a call are 0..MaxArg.
MaxArg == 1
\* Number of top-level calls the thread makes.
MaxCalls == 1
\* Steps given to the reference execution of a function.
Fuel == 40
\* Number of times the pass is run over the module (SpecTwice only).
MaxRuns == 2

-----------------------------------------------------------------------------
(* Names *)

EndsWith(s, suf) ==
  /\ Len(s) >= Len(suf)
  /\ SubSeq(s, Len(s) - Len(suf) + 1, Len(s)) = suf

StartsWith(s, pre) ==
  /\ Len(s) >= Len(pre)
  /\ SubSeq(s, 1, Len(pre)) = pre

FlagName == <<"__swordomp_status__">>
MainName == <<"main">>
OmpPrefix == <<".omp">>
CloneSuffix == <<"__swordomp__">>
SanitizeThread == "sanitize_thread"

\* A symbol table never holds one name twice: a name already in use gets a
\* numeric suffix (Value::setName / ValueSymbolTable).  The empty name is
\* "unnamed" and is never entered.
UniqueSuffixes == <<"1", "2", "3", "4">>

Uniq(used, n) ==
  IF n = <<>> \/ n \notin used THEN n
  ELSE LET k == CHOOSE j \in 1..Len(UniqueSuffixes) :
                  /\ Append(n, UniqueSuffixes[j]) \notin used
                  /\ \A h \in 1..(j-1) : Append(n, UniqueSuffixes[h]) \in used
       IN Append(n, UniqueSuffixes[k])

-----------------------------------------------------------------------------
(* i32 arithmetic: add/sub of the constant One, two's complement *)

Int32Max == 2147483647
Int32Min == -2147483647 - 1

Add32One(a) == IF a = Int32Max THEN Int32Min ELSE a + 1
Sub32One(a) == IF a = Int32Min THEN Int32Max ELSE a - 1

-----------------------------------------------------------------------------
(* Instructions.  Every instruction is a record of the same shape:         *)
(*   op   "orig" | "call" | "ret" | "br" | "unreachable"                   *)
(*        | "load" | "add" | "sub" | "store" | "icmp_eq"                   *)
(*   nm   name of the value it defines (<<>>: unnamed)                     *)
(*   src  name of the value it uses                                        *)
(*   ptr  global a load reads or a store writes                            *)
(*   fn   callee of a call                                                 *)
(*   args operands of a call: k >= 1 is the caller's k-th parameter,       *)
(*        k <= 0 the constant -k                                           *)
(*   k    orig: identity of the side effect; ret: parameter returned       *)
(*        (0: none); br: parameter tested; icmp_eq: the constant           *)
(*   t1, t2  branch targets (labels)                                       *)
(*   dbg  debug location (0: none)                                         *)
(*   md   metadata kinds attached                                          *)
(***************************************************************************)
Inst(op) == [op |-> op, nm |-> <<>>, src |-> <<>>, fn |-> <<>>, args |-> <<>>,
             ptr |-> <<>>, k |-> 0, t1 |-> <<>>, t2 |-> <<>>, dbg |-> 0,
             md |-> {}]

Orig(id, dbg)          == [Inst("orig") EXCEPT !.k = id, !.dbg = dbg]
CallI(nm, fn, args, d) == [Inst("call") EXCEPT !.nm = nm, !.fn = fn,
                                               !.args = args, !.dbg = d]
RetVoid                == Inst("ret")
RetParam(k)            == [Inst("ret") EXCEPT !.k = k]
RetValue(v)            == [Inst("ret") EXCEPT !.src = v]
Br(l)                  == [Inst("br") EXCEPT !.t1 = l]
BrParam(k, l1, l2)     == [Inst("br") EXCEPT !.k = k, !.t1 = l1, !.t2 = l2]
BrValue(c, l1, l2)     == [Inst("br") EXCEPT !.src = c, !.t1 = l1, !.t2 = l2]
Unreachable            == Inst("unreachable")

IsTerminator(i) == i.op \in {"ret", "br", "unreachable"}

Block(label, insts) == [label |-> label, insts |-> insts]

Func(name, void, attrs, blocks) ==
  [name |-> name, nparams |-> 2, void |-> void, attrs |-> attrs,
   blocks |-> blocks]

InsertBefore(s, p, new) == SubSeq(s, 1, p - 1) \o new \o SubSeq(s, p, Len(s))

\* The names a function's symbol table holds: its blocks and named values.
ValueNames(F) ==
  ({F.blocks[b].label : b \in 1..Len(F.blocks)} \cup
   UNION {{F.blocks[b].insts[p].nm : p \in 1..Len(F.blocks[b].insts)} :
            b \in 1..Len(F.blocks)}) \ {<<>>}

FunctionNames(fs) == {fs[i].name : i \in 1..Len(fs)}

-----------------------------------------------------------------------------
(* The pass: InstrumentParallel::runOnFunction *)

\* getNamedGlobal gone wrong: the global is never found.
getNamedGlobal_null(gs, name) == 0

\* Module::getNamedGlobal: position of the global of that name, 0 for NULL.
getNamedGlobal(gs, name) ==
  IF \E i \in 1..Len(gs) : gs[i].name = name
  THEN CHOOSE i \in 1..Len(gs) : gs[i].name = name
  ELSE 0

GlobalNames(gs) == {gs[i].name : i \in 1..Len(gs)}

\* new GlobalVariable(*M, Int32Ty, false, CommonLinkage, Zero, name, NULL,
\*                    GeneralDynamicTLSModel, 0, false)
DefiningFlag(name) ==
  [name |-> name, type |-> "i32", linkage |-> "common", hasInit |-> TRUE,
   init |-> 0, tls |-> "generaldynamic", extInit |-> FALSE]

\* new GlobalVariable(*M, Int32Ty, false, ExternalLinkage, 0, name, NULL,
\*                    GeneralDynamicTLSModel, 0, true)
DeclaredFlag(name) ==
  [name |-> name, type |-> "i32", linkage |-> "external", hasInit |-> FALSE,
   init |-> 0, tls |-> "generaldynamic", extInit |-> TRUE]

\* The look-up-or-create of the main branch.
EnsureFlagInMain(gs, fs) ==
  IF getNamedGlobal(gs, FlagName) = 0
  THEN Append(gs, DefiningFlag(Uniq(GlobalNames(gs) \cup FunctionNames(fs),
                                    FlagName)))
  ELSE gs

\* The look-up-or-create every instrumented function goes through.
EnsureFlag(gs, fs) ==
  IF getNamedGlobal(gs, FlagName) = 0
  THEN Append(gs, DeclaredFlag(Uniq(GlobalNames(gs) \cup FunctionNames(fs),
                                    FlagName)))
  ELSE gs

\* The global the instructions of this visit refer to (ompStatusGlobal): the
\* one found by name, else the one just created.
OmpStatusGlobal(before, after) ==
  IF getNamedGlobal(before, FlagName) # 0
  THEN before[getNamedGlobal(before, FlagName)].name
  ELSE after[Len(after)].name

\* The exclusion test without the destructor suffix.
IsExcluded_noDtor(functionName) ==
  \/ EndsWith(functionName, CloneSuffix)
  \/ EndsWith(functionName, <<"__clang_call_terminate">>)

\* The exclusion test without the exception-cleanup suffix.
IsExcluded_noTerminate(functionName) ==
  \/ EndsWith(functionName, <<"_dtor">>)
  \/ EndsWith(functionName, CloneSuffix)

\* The exclusion test without the suffix of the clones.
IsExcluded_noClone(functionName) ==
  \/ EndsWith(functionName, <<"_dtor">>)
  \/ EndsWith(functionName, <<"__clang_call_terminate">>)

IsExcluded(functionName) ==
  \/ EndsWith(functionName, <<"_dtor">>)
  \/ EndsWith(functionName, CloneSuffix)
  \/ EndsWith(functionName, <<"__clang_call_terminate">>)

\* BasicBlock::getTerminator of a block: position of the terminator, 0 for
\* NULL.
getTerminator(B) ==
  IF Len(B.insts) > 0 /\ IsTerminator(B.insts[Len(B.insts)])
  THEN Len(B.insts) ELSE 0

\* "Increment of __swordomp_status__": load, add One, store, all inserted
\* before the first instruction of the entry block.
InsertIncrement(F, g) ==
  LET used  == ValueNames(F)
      nLoad == Uniq(used, <<"loadIncOmpStatus">>)
      nInc  == Uniq(used \cup {nLoad}, <<"incOmpStatus">>)
      loadInc  == [Inst("load") EXCEPT !.nm = nLoad, !.ptr = g,
                     !.md = {"swordomp.ompstatus", "swordrt.ompstatus"}]
      inc      == [Inst("add") EXCEPT !.nm = nInc, !.src = nLoad, !.k = 1]
      storeInc == [Inst("store") EXCEPT !.src = nInc, !.ptr = g,
                     !.md = {"swordrt.ompstatus"}]
  IN [F EXCEPT !.blocks[1].insts =
                   InsertBefore(@, 1, <<loadInc, inc, storeInc>>)]

\* "Decrement of __swordomp_status__": load, sub One, store, all inserted
\* before the terminator of the last block of the function (F.back()).
InsertDecrement(F, g) ==
  LET used  == ValueNames(F)
      nLoad == Uniq(used, <<"loadDecOmpStatus">>)
      nDec  == Uniq(used \cup {nLoad}, <<"decOmpStatus">>)
      loadDec  == [Inst("load") EXCEPT !.nm = nLoad, !.ptr = g,
                     !.md = {"swordrt.ompstatus"}]
      dec      == [Inst("sub") EXCEPT !.nm = nDec, !.src = nLoad, !.k = 1]
      storeDec == [Inst("store") EXCEPT !.src = nDec, !.ptr = g,
                     !.md = {"swordrt.ompstatus"}]
      lastB    == Len(F.blocks)
      exitBBI  == getTerminator(F.blocks[lastB])
  IN [F EXCEPT !.blocks[lastB].insts =
                   InsertBefore(@, exitBBI, <<loadDec, dec, storeDec>>)]

\* The missing terminator ignored: the visit ends as any other.
BrokenFunction_continue(F) == [F |-> F, status |-> "running", msg |-> ""]

\* else report_fatal_error("Broken function found, compilation aborted!")
BrokenFunction(F) ==
  [F |-> F, status |-> "fatal",
   msg |-> "Broken function found, compilation aborted!"]

\* The ".omp" branch: what the function becomes and how the visit ends.
InstrumentOutlined(F, g) ==
  LET F1 == InsertIncrement(F, g)
  IN IF getTerminator(F1.blocks[Len(F1.blocks)]) # 0
     THEN [F |-> InsertDecrement(F1, g), status |-> "running", msg |-> ""]
     ELSE BrokenFunction(F1)

\* The clone taken after the attribute was removed instead of before.
CloneFunction_stripped(F, syms) ==
  [F EXCEPT !.name = Uniq(syms, F.name \o CloneSuffix),
            !.attrs = @ \ {SanitizeThread}]

\* CloneFunction(&F, VMap) followed by setName(functionName + "__swordomp__"):
\* a copy of F as it is now, entered in the module under a name of its own.
CloneFunction(F, syms) ==
  [F EXCEPT !.name = Uniq(syms, F.name \o CloneSuffix)]

\* The argument list collected back to front.
ForwardedArgs_reversed(F) == [i \in 1..F.nparams |-> F.nparams + 1 - i]

\* The argument list collected for the call: F's arguments, front to back.
ForwardedArgs(F) == [i \in 1..F.nparams |-> i]

\* F.removeFnAttr(llvm::Attribute::SanitizeThread)
RemoveSanitizeThread(F) == [F EXCEPT !.attrs = @ \ {SanitizeThread}]

\* The first instruction of the entry block with a debug location
\* (firstEntryBBDI): its position, 0 for NULL.
FirstEntryBBDI(F) ==
  LET insts == F.blocks[1].insts
  IN IF \E p \in 1..Len(insts) : insts[p].dbg # 0
     THEN CHOOSE p \in 1..Len(insts) :
            /\ insts[p].dbg # 0
            /\ \A q \in 1..(p-1) : insts[q].dbg = 0
     ELSE 0

\* firstEntryBBI = &F.getEntryBlock().front(): a position, never NULL (0).
FirstEntryBBI(F) == 1

\* if(!firstEntryBBI || !firstEntryBBI): both operands are firstEntryBBI;
\* firstEntryBBDI is not looked at.
NoDebugInfoCheck(firstEntryBBI, firstEntryBBDI) ==
  firstEntryBBI = 0 \/ firstEntryBBI = 0

\* report_fatal_error("No instructions with debug information!")
NoDebugInfoMsg == "No instructions with debug information!"

\* new ICmpInst(firstEntryBBI, ICMP_EQ, loadOmpStatus, One, "__swordomp__cond")
CondInst(nm, loaded) ==
  [Inst("icmp_eq") EXCEPT !.nm = nm, !.src = loaded, !.k = 1]

\* The branch with its two successors exchanged.
DispatchBranch_swapped(cond, swordThenBB, newEntryBB) ==
  BrValue(cond, newEntryBB, swordThenBB)

\* BranchInst::Create(swordThenBB, newEntryBB, CondInst, &F.getEntryBlock())
DispatchBranch(cond, swordThenBB, newEntryBB) ==
  BrValue(cond, swordThenBB, newEntryBB)

\* The body of swordThenBB: the call of the clone and the return.  The
\* return is created after setDebugLoc, so it is missing when that dies.
ThenBlock(F, new_function, dbgLoc, returned) ==
  IF new_function.void
  THEN <<CallI(<<>>, new_function.name, ForwardedArgs(F), dbgLoc)>>
       \o (IF returned THEN <<RetVoid>> ELSE <<>>)
  ELSE LET nCall == Uniq(ValueNames(F), F.name \o CloneSuffix)
       IN <<CallI(nCall, new_function.name, ForwardedArgs(F), dbgLoc)>>
          \o (IF returned THEN <<RetValue(nCall)>> ELSE <<>>)

\* The sequential branch after the clone was made: strip the attribute, put
\* load and compare in front of the first instruction, split the entry block
\* there, replace the branch the split left by the conditional one and add
\* the block that calls the clone.  dbgLoc is the location given to the call.
InstrumentSequential(F, new_function, g, dbgLoc, returned) ==
  LET F0     == RemoveSanitizeThread(F)
      used   == ValueNames(F0)
      nLoad  == Uniq(used, <<"loadOmpStatus">>)
      nCond  == Uniq(used \cup {nLoad}, <<"__swordomp__cond">>)
      nEntry == Uniq(used \cup {nLoad, nCond}, <<"__swordomp__entry">>)
      nThen  == Uniq(used \cup {nLoad, nCond, nEntry},
                     <<"__swordomp__if.then">>)
      loadOmpStatus == [Inst("load") EXCEPT !.nm = nLoad, !.ptr = g]
      head   == Block(F0.blocks[1].label,
                      <<loadOmpStatus, CondInst(nCond, nLoad),
                        DispatchBranch(nCond, nThen, nEntry)>>)
      newEntryBB == Block(nEntry, F0.blocks[1].insts)
      F1     == [F0 EXCEPT !.blocks = <<head, newEntryBB>>
                                        \o SubSeq(@, 2, Len(@))]
      swordThenBB == Block(nThen, ThenBlock(F1, new_function, dbgLoc,
                                            returned))
  IN [F1 EXCEPT !.blocks = Append(@, swordThenBB)]

\* firstEntryBBDI->getDebugLoc() with firstEntryBBDI == NULL reads through a
\* null pointer.  What the build does then is not defined: the compiler
\* process dies, or the read yields some location or none.
NullDerefOutcomes == {"segv", "noloc", "junkloc"}
JunkLoc == -1

\* One call of runOnFunction, on the function the pass manager is at.  A
\* function added to the module during the run is at the end of the function
\* list and is reached by the same iteration.
runOnFunction ==
  /\ status = "running"
  /\ cur <= Len(functions)
  /\ LET F == functions[cur]
         functionName == F.name
     IN IF functionName = MainName
        THEN /\ globals' = EnsureFlagInMain(globals, functions)
             /\ UNCHANGED <<functions, status, msg>>
        ELSE IF IsExcluded(functionName)
        THEN UNCHANGED <<functions, globals, status, msg>>
        ELSE LET gs == EnsureFlag(globals, functions)
                 g  == OmpStatusGlobal(globals, gs)
             IN /\ globals' = gs
                /\ IF StartsWith(functionName, OmpPrefix)
                   THEN LET r == InstrumentOutlined(F, g)
                        IN /\ functions' = [functions EXCEPT ![cur] = r.F]
                           /\ status' = r.status
                           /\ msg' = r.msg
                   ELSE LET new_function ==
                              CloneFunction(F, FunctionNames(functions)
                                               \cup GlobalNames(gs))
                            di == FirstEntryBBDI(F)
                        IN IF NoDebugInfoCheck(FirstEntryBBI(F), di)
                           THEN /\ functions' =
                                     Append([functions EXCEPT ![cur] =
                                               RemoveSanitizeThread(F)],
                                            new_function)
                                /\ status' = "fatal"
                                /\ msg' = NoDebugInfoMsg
                           ELSE IF di # 0
                           THEN /\ functions' =
                                     Append([functions EXCEPT ![cur] =
                                        InstrumentSequential(F, new_function,
                                          g, F.blocks[1].insts[di].dbg, TRUE)],
                                        new_function)
                                /\ UNCHANGED <<status, msg>>
                           ELSE \E outcome \in NullDerefOutcomes :
                                /\ functions' =
                                     Append([functions EXCEPT ![cur] =
                                        InstrumentSequential(F, new_function,
                                          g,
                                          IF outcome = "junkloc"
                                          THEN JunkLoc ELSE 0,
                                          outcome # "segv")],
                                        new_function)
                                /\ status' = IF outcome = "segv"
                                             THEN "crash" ELSE status
                                /\ msg' = msg
  /\ cur' = cur + 1
  /\ UNCHANGED <<run, input>>
  /\ UNCHANGED rtVars

\* The pass manager has been through the function list: the module is the
\* output of the run.
PassDone ==
  /\ status = "running"
  /\ cur > Len(functions)
  /\ status' = "done"
  /\ UNCHANGED <<functions, globals, cur, msg, run, input>>
  /\ UNCHANGED rtVars

\* The pass is run once more over the module it produced.
RunAgain ==
  /\ status = "done"
  /\ run < MaxRuns
  /\ calls = 0
  /\ run' = run + 1
  /\ cur' = 1
  /\ status' = "running"
  /\ UNCHANGED <<functions, globals, msg, input>>
  /\ UNCHANGED rtVars

-----------------------------------------------------------------------------
(* Execution of the instrumented code by one thread.                       *)
(* The thread's copy of __swordomp_status__ is flag; trace is the sequence *)
(* of observable events: the side effects of original instructions, the    *)
(* calls, and the values stored to the flag.                               *)

NoValue == -1

Event(kind, fn, id, callee, args) ==
  [kind |-> kind, fn |-> fn, id |-> id, callee |-> callee, args |-> args]

\* What is known of the call that returned last: the function, its
\* arguments, the flag when it was entered, the events between its entry and
\* its return, the value returned and the flag at the return.
NoLast ==
  [ok |-> FALSE, fn |-> <<>>, args |-> <<>>, entryFlag |-> 0,
   events |-> <<>>, val |-> NoValue, exitFlag |-> 0]

Frame(fi, args, entryFlag, t0) ==
  [fi |-> fi, blk |-> 1, pc |-> 1, args |-> args, regs |-> <<>>,
   entryFlag |-> entryFlag, t0 |-> t0]

SetReg(regs, n, v) ==
  IF n = <<>> THEN regs
  ELSE [x \in (DOMAIN regs) \cup {n} |-> IF x = n THEN v ELSE regs[x]]

FuncIndex(fs, name) ==
  IF \E i \in 1..Len(fs) : fs[i].name = name
  THEN CHOOSE i \in 1..Len(fs) : fs[i].name = name
  ELSE 0

BlockIndex(F, label) ==
  CHOOSE b \in 1..Len(F.blocks) : F.blocks[b].label = label

Goto(rt, d, F, label) ==
  [rt EXCEPT !.stack[d].blk = BlockIndex(F, label), !.stack[d].pc = 1]

\* The thread stops: unreachable was executed, or control ran off the end
\* of a block that has no terminator.
Trap(rt) == [rt EXCEPT !.stack = <<>>, !.last = NoLast]

\* One instruction of the function on top of the stack.
StepState(fs, rt) ==
  LET d  == Len(rt.stack)
      fr == rt.stack[d]
      F  == fs[fr.fi]
      B  == F.blocks[fr.blk]
  IN IF fr.pc > Len(B.insts) THEN Trap(rt)
     ELSE
     LET i == B.insts[fr.pc]
         next == [rt EXCEPT !.stack[d].pc = @ + 1]
     IN CASE i.op = "orig" ->
               [next EXCEPT !.trace =
                   Append(@, Event("orig", F.name, i.k, <<>>, <<>>))]
          [] i.op = "load" ->
               [next EXCEPT !.stack[d].regs = SetReg(@, i.nm, rt.flag)]
          [] i.op = "add" ->
               [next EXCEPT !.stack[d].regs =
                   SetReg(@, i.nm, Add32One(fr.regs[i.src]))]
          [] i.op = "sub" ->
               [next EXCEPT !.stack[d].regs =
                   SetReg(@, i.nm, Sub32One(fr.regs[i.src]))]
          [] i.op = "store" ->
               [next EXCEPT !.flag = fr.regs[i.src],
                            !.trace = Append(@, Event("store", F.name,
                                               fr.regs[i.src], i.ptr, <<>>))]
          [] i.op = "icmp_eq" ->
               [next EXCEPT !.stack[d].regs =
                   SetReg(@, i.nm, IF fr.regs[i.src] = i.k THEN 1 ELSE 0)]
          [] i.op = "br" ->
               IF i.t2 = <<>> THEN Goto(rt, d, F, i.t1)
               ELSE LET c == IF i.src # <<>> THEN fr.regs[i.src]
                             ELSE fr.args[i.k]
                    IN Goto(rt, d, F, IF c # 0 THEN i.t1 ELSE i.t2)
          [] i.op = "call" ->
               LET argv == [j \in 1..Len(i.args) |->
                              IF i.args[j] >= 1 THEN fr.args[i.args[j]]
                              ELSE 0 - i.args[j]]
                   ci == FuncIndex(fs, i.fn)
                   tr == Append(rt.trace,
                                Event("call", F.name, 0, i.fn, argv))
               IN IF ci = 0
                  THEN [next EXCEPT !.trace = tr,
                                    !.stack[d].regs = SetReg(@, i.nm, 0)]
                  ELSE [rt EXCEPT !.trace = tr,
                                  !.stack = Append(@, Frame(ci, argv, rt.flag,
                                                            Len(tr)))]
          [] i.op = "ret" ->
               LET val == IF i.src # <<>> THEN fr.regs[i.src]
                          ELSE IF i.k >= 1 THEN fr.args[i.k]
                          ELSE NoValue
                   lastR == [ok |-> TRUE, fn |-> F.name, args |-> fr.args,
                             entryFlag |-> fr.entryFlag,
                             events |-> SubSeq(rt.trace, fr.t0 + 1,
                                               Len(rt.trace)),
                             val |-> val, exitFlag |-> rt.flag]
               IN IF d = 1
                  THEN [rt EXCEPT !.stack = <<>>, !.last = lastR]
                  ELSE LET cf == rt.stack[d-1]
                           ci == fs[cf.fi].blocks[cf.blk].insts[cf.pc]
                       IN [rt EXCEPT
                             !.stack = [SubSeq(@, 1, d - 1) EXCEPT
                                          ![d-1].regs = SetReg(@, ci.nm, val),
                                          ![d-1].pc = @ + 1],
                             !.last = lastR]
          [] OTHER -> Trap(rt)

RT == [stack |-> stack, flag |-> flag, trace |-> trace, last |-> last]

\* The thread calls a function of the compiled module.
Invoke ==
  /\ status = "done"
  /\ stack = <<>>
  /\ calls < MaxCalls
  /\ \E fi \in 1..Len(functions) :
     \E args \in [1..functions[fi].nparams -> 0..MaxArg] :
       /\ stack' = <<Frame(fi, args, flag, 0)>>
       /\ trace' = <<>>
       /\ last' = NoLast
  /\ calls' = calls + 1
  /\ UNCHANGED flag
  /\ UNCHANGED passVars

\* The thread executes one instruction.
Step ==
  /\ stack # <<>>
  /\ LET rt == StepState(functions, RT)
     IN /\ stack' = rt.stack
        /\ flag' = rt.flag
        /\ trace' = rt.trace
        /\ last' = rt.last
  /\ UNCHANGED calls
  /\ UNCHANGED passVars

\* The result of calling function fi of the module fs with args, the flag
\* being flag0 at the call, run to its return.
RECURSIVE Exec(_, _, _)
Exec(fs, rt, n) ==
  IF rt.stack = <<>> \/ n = 0 THEN rt
  ELSE Exec(fs, StepState(fs, rt), n - 1)

RefRun(fs, fi, args, flag0) ==
  Exec(fs, [stack |-> <<Frame(fi, args, flag0, 0)>>, flag |-> flag0,
            trace |-> <<>>, last |-> NoLast], Fuel).last

-----------------------------------------------------------------------------
(* The modules handed to the pass: one to MaxFuncs of the functions below, *)
(* in any order.                                                           *)

OuterName  == <<".omp", "_outlined.">>
EarlyName  == <<".omp", "_outlined.", "early">>
MultiName  == <<".omp", "_outlined.", "multi">>
BrokenName == <<".omp", "_outlined.", "broken">>
FooName    == <<"foo">>
BarName    == <<"bar">>
NoDbgName  == <<"nodbg">>

Catalogue ==
  << \* main: calls the outlined function
     Func(MainName, FALSE, {},
          <<Block(<<"entry">>,
                  <<Orig(14, 1), CallI(<<>>, OuterName, <<-1, 0>>, 2),
                    RetParam(1)>>)>>),
     \* a sequential function returning a value, marked for the sanitizer
     Func(FooName, FALSE, {SanitizeThread},
          <<Block(<<"entry">>,
                  <<Orig(1, 0), Orig(2, 12),
                    BrParam(1, <<"if.then">>, <<"if.else">>)>>),
            Block(<<"if.then">>, <<Orig(3, 13), RetParam(2)>>),
            Block(<<"if.else">>, <<RetParam(1)>>)>>),
     \* a sequential function returning nothing, not marked
     Func(BarName, TRUE, {},
          <<Block(<<"entry">>,
                  <<Orig(4, 20), CallI(<<"v">>, FooName, <<2, 1>>, 21),
                    RetVoid>>)>>),
     \* a sequential function with no debug location in its entry block
     Func(NoDbgName, TRUE, {SanitizeThread},
          <<Block(<<"entry">>, <<Orig(5, 0), Br(<<"tail">>)>>),
            Block(<<"tail">>, <<Orig(6, 31), RetVoid>>)>>),
     \* an outlined function whose only exit is its last block; it runs a
     \* nested region (itself) when its first argument is not 0, and calls
     \* foo
     Func(OuterName, TRUE, {SanitizeThread},
          <<Block(<<"entry">>,
                  <<Orig(7, 40), BrParam(1, <<"nested">>, <<"body">>)>>),
            Block(<<"nested">>,
                  <<CallI(<<>>, OuterName, <<0, 2>>, 41), Br(<<"body">>)>>),
            Block(<<"body">>,
                  <<CallI(<<"r">>, FooName, <<1, 2>>, 42), RetVoid>>)>>),
     \* an outlined function whose only exit is not its last block
     Func(EarlyName, TRUE, {SanitizeThread},
          <<Block(<<"entry">>,
                  <<BrParam(1, <<"exit">>, <<"work">>)>>),
            Block(<<"exit">>, <<RetVoid>>),
            Block(<<"work">>, <<Orig(8, 50), Br(<<"exit">>)>>)>>),
     \* an outlined function with two exits
     Func(MultiName, TRUE, {SanitizeThread},
          <<Block(<<"entry">>,
                  <<BrParam(1, <<"a">>, <<"b">>)>>),
            Block(<<"a">>, <<Orig(9, 60), RetVoid>>),
            Block(<<"b">>, <<Orig(10, 61), RetVoid>>)>>),
     \* an outlined function whose last block has no terminator
     Func(BrokenName, TRUE, {SanitizeThread},
          <<Block(<<"entry">>, <<Orig(11, 70), RetVoid>>),
            Block(<<"dead">>, <<Orig(12, 71)>>)>>),
     \* functions with an excluded suffix
     Func(<<".omp", "_outlined.", "_dtor">>, TRUE, {SanitizeThread},
          <<Block(<<"entry">>, <<Orig(13, 80), RetVoid>>)>>),
     Func(<<"g", "__swordomp__">>, FALSE, {SanitizeThread},
          <<Block(<<"entry">>, <<Orig(15, 81), RetParam(1)>>)>>),
     Func(<<"__clang_call_terminate">>, TRUE, {},
          <<Block(<<"entry">>, <<Orig(16, 0), Unreachable>>)>>)
  >>

Modules ==
  UNION {{[i \in 1..n |-> Catalogue[p[i]]] :
            p \in {q \in [1..n -> 1..Len(Catalogue)] :
                     \A a, b \in 1..n : a # b => q[a] # q[b]}} :
         n \in 1..MaxFuncs}

Init ==
  /\ functions \in Modules
  /\ input = functions
  /\ globals = <<>>
  /\ cur = 1
  /\ status = "running"
  /\ msg = ""
  /\ run = 1
  /\ stack = <<>>
  /\ flag = 0
  /\ trace = <<>>
  /\ last = NoLast
  /\ calls = 0

Next == runOnFunction \/ PassDone \/ Invoke \/ Step

Spec == Init /\ [][Next]_vars

NextTwice == Next \/ RunAgain

SpecTwice == Init /\ [][NextTwice]_vars

-----------------------------------------------------------------------------
(* Vocabulary of the properties.  These definitions state what the         *)
(* properties talk about; none of them is used by the actions above.       *)

ExcludedSuffixes ==
  {<<"_dtor">>, <<"__swordomp__">>, <<"__clang_call_terminate">>}

HasExcludedSuffix(n) == \E suf \in ExcludedSuffixes : EndsWith(n, suf)

\* The four roles, by name.
Role(n) ==
  IF n = <<"main">> THEN "EntryPoint"
  ELSE IF HasExcludedSuffix(n) THEN "Excluded"
  ELSE IF StartsWith(n, <<".omp">>) THEN "ParallelOutlined"
  ELSE "SequentialCandidate"

\* The functions of the input module the current run has visited.
Visited == {i \in 1..Len(input) : i < cur}

NameOfClone(n) == n \o <<"__swordomp__">>

AllInsts(F) ==
  UNION {{F.blocks[b].insts[p] : p \in 1..Len(F.blocks[b].insts)} :
           b \in 1..Len(F.blocks)}

CountOp(F, op) ==
  LET RECURSIVE InBlock(_, _)
      InBlock(insts, p) ==
        IF p > Len(insts) THEN 0
        ELSE (IF insts[p].op = op THEN 1 ELSE 0) + InBlock(insts, p + 1)
      RECURSIVE InBlocks(_)
      InBlocks(b) ==
        IF b > Len(F.blocks) THEN 0
        ELSE InBlock(F.blocks[b].insts, 1) + InBlocks(b + 1)
  IN InBlocks(1)

\* The call that returned last was a call of an instrumented sequential
\* candidate of the input module.
DispatcherReturned ==
  /\ status = "done"
  /\ last.ok
  /\ \E i \in 1..Len(input) : input[i].name = last.fn
  /\ Role(last.fn) = "SequentialCandidate"

\* The module as compiled, with the function fi as it was before the pass.
WithOriginal(fi) == [functions EXCEPT ![fi] = input[fi]]

CallsOfClone(events, caller) ==
  {p \in 1..Len(events) :
     /\ events[p].kind = "call"
     /\ events[p].fn = caller
     /\ events[p].callee = NameOfClone(caller)}

-----------------------------------------------------------------------------
\* C1: a call of an instrumented sequential candidate made while the flag
\* is not 1 does what the function did before the pass: the same events in
\* the same order, the same value returned, the same flag at the return.  It
\* makes no call of the clone, and the blocks reached when the flag is not 1
\* are the blocks of the original, instruction for instruction.
C1_NotOneRunsOriginal ==
  (DispatcherReturned /\ last.entryFlag # 1) =>
    LET fi == FuncIndex(functions, last.fn)
        n  == Len(input[fi].blocks)
    IN /\ last = RefRun(WithOriginal(fi), fi, last.args, last.entryFlag)
       /\ CallsOfClone(last.events, last.fn) = {}
       /\ \A b \in 1..n :
            functions[fi].blocks[b + 1].insts = input[fi].blocks[b].insts

\* A call of foo made at nesting depth 2 has returned.
W_C1 ==
  /\ DispatcherReturned
  /\ last.fn = <<"foo">>
  /\ last.entryFlag = 2
  /\ Len(last.events) > 0

CE_C3_NonzeroCallsClone ==
  DispatcherReturned =>
    IF last.entryFlag # 0
    THEN CallsOfClone(last.events, last.fn) = {1}
    ELSE CallsOfClone(last.events, last.fn) = {}

\* The blocks of F that end in a return.
ExitBlocks(F) ==
  {b \in 1..Len(F.blocks) :
     /\ Len(F.blocks[b].insts) > 0
     /\ F.blocks[b].insts[Len(F.blocks[b].insts)].op = "ret"}

\* The call that returned last was a call of an instrumented outlined
\* function of the input module.
OutlinedReturned ==
  /\ status = "done"
  /\ last.ok
  /\ \E i \in 1..Len(input) : input[i].name = last.fn
  /\ Role(last.fn) = "ParallelOutlined"

StoresBy(events, fn) ==
  {p \in 1..Len(events) : events[p].kind = "store" /\ events[p].fn = fn}

\* C4 (as stated): a call of an instrumented outlined function that has a
\* single exit block leaves the flag as it found it, and (when it does not
\* run itself again) stores to the flag exactly twice: the increment and the
\* decrement.
CE_C4_SingleExitBalanced ==
  (OutlinedReturned
     /\ Cardinality(ExitBlocks(input[FuncIndex(input, last.fn)])) = 1) =>
    /\ last.exitFlag = last.entryFlag
    /\ (\A p \in 1..Len(last.events) :
          ~(last.events[p].kind = "call" /\ last.events[p].callee = last.fn))
       => Cardinality(StoresBy(last.events, last.fn)) = 2

FlagGlobals == {i \in 1..Len(globals) : globals[i].name = FlagName}

\* C5 (as stated): once every function has been visited the module has
\* exactly one global named __swordomp_status__.
CE_C5_ExactlyOneFlag ==
  status = "done" => Cardinality(FlagGlobals) = 1

\* C5 (amended): the module never has more than one global named
\* __swordomp_status__ and the pass adds no other global; once every
\* function has been visited there is exactly one if the module has a
\* function whose name has no excluded suffix, and none otherwise.
C5_AtMostOneFlag ==
  /\ Cardinality(FlagGlobals) <= 1
  /\ Len(globals) <= 1
  /\ status = "done" =>
       (Cardinality(FlagGlobals) = 1 <=>
          \E i \in 1..Len(input) : ~HasExcludedSuffix(input[i].name))

\* Two functions that both look the flag up have been visited.
W_C5 ==
  /\ status = "done"
  /\ Len(input) = 2
  /\ \A i \in 1..2 : ~HasExcludedSuffix(input[i].name) /\ input[i].name # <<"main">>
  /\ Cardinality(FlagGlobals) = 1

\* C6: the visit of a function whose name ends with an excluded suffix
\* changes nothing: not the function, not any other function, not the
\* globals, and no function is added.
C6_ExcludedUntouched ==
  [][(/\ status = "running"
      /\ cur <= Len(functions)
      /\ HasExcludedSuffix(functions[cur].name)
      /\ cur' = cur + 1)
     => (functions' = functions /\ globals' = globals /\ status' = status)]_vars

\* The function with both the ".omp" prefix and the "_dtor" suffix has been
\* visited, after a function that created the flag.
W_C6 ==
  /\ cur = 3
  /\ Len(input) = 2
  /\ input[2].name = <<".omp", "_outlined.", "_dtor">>
  /\ functions[2] = input[2]
  /\ Len(globals) = 1

\* C7: once a sequential candidate has been visited, the module has a
\* function named <name>__swordomp__ that is the function as it was before
\* the visit (blocks, instructions, parameters, attributes) and so has no
\* load or compare of the flag; it carries the thread-sanitize marker if and
\* only if the original did, and the original does not carry it any more.
C7_CloneIsCopy ==
  \A i \in Visited :
    Role(input[i].name) = "SequentialCandidate" =>
      LET ci == FuncIndex(functions, NameOfClone(input[i].name))
      IN /\ ci # 0
         /\ functions[ci] = [input[i] EXCEPT !.name = NameOfClone(@)]
         /\ \A x \in AllInsts(functions[ci]) :
              x.op \notin {"load", "icmp_eq"} /\ x.src = <<>>
         /\ ("sanitize_thread" \in functions[ci].attrs
               <=> "sanitize_thread" \in input[i].attrs)
         /\ "sanitize_thread" \notin functions[i].attrs

\* foo, which carries the marker, has been instrumented.
W_C7 ==
  /\ status = "done"
  /\ \E i \in Visited :
       /\ input[i].name = <<"foo">>
       /\ "sanitize_thread" \in input[i].attrs
       /\ CountOp(functions[i], "icmp_eq") = 1

CallSites(F) == CountOp(F, "call")

\* C8 (as stated): after a second run of the pass every outlined function
\* still has one increment and one decrement, every sequential candidate
\* still has one flag check and one call of a clone, and the module has no
\* more functions than after the first run.
CE_C8_SecondRunAddsNothing ==
  (run = 2 /\ status = "done") =>
    /\ \A i \in 1..Len(input) :
         Role(input[i].name) = "ParallelOutlined" =>
           CountOp(functions[i], "add") = 1 /\ CountOp(functions[i], "sub") = 1
    /\ \A i \in 1..Len(input) :
         Role(input[i].name) = "SequentialCandidate" =>
           /\ CountOp(functions[i], "icmp_eq") = 1
           /\ CallSites(functions[i]) = CallSites(input[i]) + 1
    /\ Len(functions) =
         Len(input) + Cardinality({i \in 1..Len(input) :
                          Role(input[i].name) = "SequentialCandidate"})

HasDebugInEntry(F) ==
  \E p \in 1..Len(F.blocks[1].insts) : F.blocks[1].insts[p].dbg # 0

\* C9 (as stated): the visit of a sequential candidate whose entry block
\* has no instruction with a debug location ends in the fatal error "No
\* instructions with debug information!".
CE_C9_NoDebugInfoIsFatal ==
  \A i \in Visited :
    (Role(input[i].name) = "SequentialCandidate" /\ ~HasDebugInEntry(input[i]))
      => (status = "fatal" /\ msg = "No instructions with debug information!")

Terminated(B) ==
  /\ Len(B.insts) > 0
  /\ B.insts[Len(B.insts)].op \in {"ret", "br", "unreachable"}

\* C10: the visit of an outlined function whose last block has no
\* terminator ends in the fatal error "Broken function found, compilation
\* aborted!", after which the pass does nothing more; a module the pass
\* returns has, in each of its outlined functions, as many increments as
\* decrements.
C10_BrokenFunctionIsFatal ==
  /\ \A i \in Visited :
       (/\ Role(input[i].name) = "ParallelOutlined"
        /\ ~Terminated(input[i].blocks[Len(input[i].blocks)]))
         => /\ status = "fatal"
            /\ msg = "Broken function found, compilation aborted!"
            /\ cur = i + 1
  /\ status = "done" =>
       \A i \in 1..Len(input) :
         Role(input[i].name) = "ParallelOutlined" =>
           CountOp(functions[i], "add") = CountOp(functions[i], "sub")

\* The pass has stopped on the outlined function without terminator,
\* leaving it with an increment and no decrement.
W_C10 ==
  /\ status = "fatal"
  /\ msg = "Broken function found, compilation aborted!"
  /\ \E i \in Visited :
       /\ ~Terminated(input[i].blocks[Len(input[i].blocks)])
       /\ CountOp(functions[i], "add") = 1
       /\ CountOp(functions[i], "sub") = 0

\* What a visit did, read off the module before and after it.
FlagEnsured(gs) == \E i \in 1..Len(gs) : gs[i].name = <<"__swordomp_status__">>

\* C11: the transformation a visit applies is the one of the role the name
\* alone gives, the first matching rule deciding: main gets the flag and
\* nothing else; a name with an excluded suffix (also one that starts with
\* ".omp") gets nothing; another name starting with ".omp" gets the
\* increment and no clone; every other name gets the clone and the flag
\* check and no increment.
C11_RoleDecidesTransformation ==
  [][(status = "running" /\ cur <= Len(functions) /\ cur' = cur + 1) =>
       LET n == functions[cur].name
           F == functions[cur]
           G == functions'[cur]
       IN CASE Role(n) = "EntryPoint" ->
                 /\ functions' = functions
                 /\ FlagEnsured(globals')
            [] Role(n) = "Excluded" ->
                 /\ functions' = functions
                 /\ globals' = globals
            [] Role(n) = "ParallelOutlined" ->
                 /\ Len(functions') = Len(functions)
                 /\ FlagEnsured(globals')
                 /\ CountOp(G, "add") = CountOp(F, "add") + 1
                 /\ CountOp(G, "icmp_eq") = CountOp(F, "icmp_eq")
            [] Role(n) = "SequentialCandidate" ->
                 /\ Len(functions') = Len(functions) + 1
                 /\ FlagEnsured(globals')
                 /\ CountOp(G, "icmp_eq") = CountOp(F, "icmp_eq") + 1
                 /\ CountOp(G, "add") = CountOp(F, "add")
                 /\ CountOp(G, "sub") = CountOp(F, "sub")]_vars

\* The function named .omp_outlined._dtor has been visited and left alone,
\* and then an outlined function got its increment.
W_C11 ==
  /\ cur = 3
  /\ Len(input) = 2
  /\ input[1].name = <<".omp", "_outlined.", "_dtor">>
  /\ functions[1] = input[1]
  /\ Role(input[2].name) = "ParallelOutlined"
  /\ CountOp(functions[2], "add") = 1

\* C12 (as stated): a call of an instrumented outlined function that has
\* several exit blocks leaves the flag as it found it, whichever exit the
\* call takes.
CE_C12_EveryExitBalanced ==
  (OutlinedReturned
     /\ Cardinality(ExitBlocks(input[FuncIndex(input, last.fn)])) >= 2) =>
    last.exitFlag = last.entryFlag

\* C13 (as stated): once main has been visited the flag exists in its
\* defining form (thread-local i32, initialized to 0, common linkage) and
\* main is as it was, whatever was visited before main.
CE_C13_MainDefinesFlag ==
  \A i \in Visited :
    input[i].name = <<"main">> =>
      /\ functions[i] = input[i]
      /\ \E g \in 1..Len(globals) :
           /\ globals[g].name = <<"__swordomp_status__">>
           /\ globals[g].type = "i32"
           /\ globals[g].tls = "generaldynamic"
           /\ globals[g].linkage = "common"
           /\ globals[g].hasInit
           /\ globals[g].init = 0

\* The sequential candidates of the input module.
Candidates ==
  {i \in 1..Len(input) : Role(input[i].name) = "SequentialCandidate"}

\* C14: in one run of the pass every function added to the module is the
\* clone of a sequential candidate of the input module and stays what it was
\* when it was made, also after the run has visited it: it is not
\* instrumented and no clone of it is made.  One function has been added for
\* each candidate visited so far, the run stays within the function list,
\* and at its end the module has exactly one more function for each
\* candidate it had at the start.
C14_ClonesNotRecloned ==
  /\ \A j \in (Len(input) + 1)..Len(functions) :
       /\ \E i \in Candidates :
            functions[j] = [input[i] EXCEPT !.name = NameOfClone(@)]
       /\ \A h \in 1..Len(functions) :
            functions[h].name # NameOfClone(functions[j].name)
  /\ Len(functions) - Len(input) = Cardinality(Candidates \cap Visited)
  /\ cur <= Len(functions) + 1
  /\ status = "done" =>
       /\ cur = Len(functions) + 1
       /\ Len(functions) = Len(input) + Cardinality(Candidates)

\* The run has visited the clones of two candidates and has ended.
W_C14 ==
  /\ status = "done"
  /\ Cardinality(Candidates) = 2
  /\ Len(functions) = 4
  /\ cur = 5

====
